---- MODULE Spec2Model ----
\* Model of the PNG chunk codec of pngne: ChunkType (src/src/chunk_type.rs)
\* and Chunk (src/src/chunk.rs).
\*
\* Representation:
\*   - a byte is a number in 0..255, a char is its Unicode code point;
\*   - a byte slice, a Vec<u8>, a [u8; 4], a Vec<char> and a &str are
\*     sequences (a &str is the sequence of its chars);
\*   - a u32 is the record [hi, lo] of its two 16-bit halves, because the
\*     integers of the model checker are 32-bit signed and a CRC does not fit;
\*   - a Result is a record with a tag; a panic of the program is the result
\*     tagged "Panic".
EXTENDS Integers, Sequences, FiniteSets, TLC

VARIABLES arg, owned, borrowed, parsed, chunk, buf, src, res

vars == <<arg, owned, borrowed, parsed, chunk, buf, src, res>>

typeVars == <<arg, owned, borrowed, parsed>>
chunkVars == <<chunk, buf, src, res>>

\* ---------------------------------------------------------------- bounds
MaxStrLen == 5
MaxPayload == 3
MaxTrailing == 4
MaxRaw == 18

\* ------------------------------------------------------- input alphabets
\* chars of the strings handed to from_str: the ends of the two letter
\* ranges, their outer neighbours, a Latin-1 char and a char whose low byte
\* is a letter ('A' + 256).
CharSet == {65, 90, 97, 122, 64, 91, 200, 321}
PayloadBytes == {0, 255}
TrailingBytes == {0, 65}
RawBytes == {0, 65}

\* "RuSt" and "aZzA"
TagInputs == {<<82, 117, 83, 116>>, <<97, 90, 122, 65>>}

\* b"This is where your secret message will be!" (chunk.rs:167)
TestMessage ==
    <<84, 104, 105, 115, 32, 105, 115, 32, 119, 104, 101, 114, 101, 32,
      121, 111, 117, 114, 32, 115, 101, 99, 114, 101, 116, 32, 109, 101,
      115, 115, 97, 103, 101, 32, 119, 105, 108, 108, 32, 98, 101, 33>>

Strings == UNION {[1..n -> CharSet] : n \in 0..MaxStrLen}

Payloads ==
    UNION {[1..n -> PayloadBytes] : n \in 0..MaxPayload} \cup {TestMessage}

Fill(b, n) == [i \in 1..n |-> b]

Trailings == {Fill(b, n) : b \in TrailingBytes, n \in 0..MaxTrailing}

\* length fields of raw buffers: 0, 1, 2, 5, 9, 256 and 0x7F000000
LenFields ==
    {<<0, 0, 0, 0>>, <<0, 0, 0, 1>>, <<0, 0, 0, 2>>, <<0, 0, 0, 5>>,
     <<0, 0, 0, 9>>, <<0, 0, 1, 0>>, <<127, 0, 0, 0>>}

\* type fields of raw buffers: "RuSt", "Ru1t" and four NUL bytes
RawTags == {<<82, 117, 83, 116>>, <<82, 117, 49, 116>>, <<0, 0, 0, 0>>}

RawBuffers ==
    {SubSeq(lf \o tg \o Fill(b, MaxRaw), 1, n) :
        lf \in LenFields, tg \in RawTags, b \in RawBytes, n \in 0..MaxRaw}

None == [tag |-> "None"]

\* ------------------------------------------------------------ bit helpers
RECURSIVE BitXor(_, _, _)
BitXor(a, b, n) ==
    IF n = 0 THEN 0
    ELSE ((a + b) % 2) + 2 * BitXor(a \div 2, b \div 2, n - 1)

RECURSIVE BitAnd(_, _, _)
BitAnd(a, b, n) ==
    IF n = 0 THEN 0
    ELSE ((a % 2) * (b % 2)) + 2 * BitAnd(a \div 2, b \div 2, n - 1)

\* ------------------------------------------------------------------- u32
U32(hi, lo) == [hi |-> hi, lo |-> lo]

from_be_bytes(b) == U32(b[1] * 256 + b[2], b[3] * 256 + b[4])

to_be_bytes(w) == <<w.hi \div 256, w.hi % 256, w.lo \div 256, w.lo % 256>>

\* u32 as usize (64-bit usize: lossless)
as_usize(w) == w.hi * 65536 + w.lo

\* usize as u32 (truncating)
as_u32(n) == U32((n \div 65536) % 65536, n % 65536)

XorU32(a, b) == U32(BitXor(a.hi, b.hi, 16), BitXor(a.lo, b.lo, 16))

Shr1(w) == U32(w.hi \div 2, (w.lo \div 2) + (w.hi % 2) * 32768)

Shr8(w) == U32(w.hi \div 256, (w.lo \div 256) + (w.hi % 256) * 256)

NotU32(w) == U32(65535 - w.hi, 65535 - w.lo)

\* ------------------------------------------------------------ CRC-32/IEEE
\* crc::crc32::checksum_ieee: reflected table-driven CRC-32, polynomial
\* 0xEDB88320, initial value and final xor 0xFFFFFFFF.
IEEE == U32(60856, 33568)

RECURSIVE TableStep(_, _)
TableStep(v, n) ==
    IF n = 0 THEN v
    ELSE TableStep(IF v.lo % 2 = 1 THEN XorU32(Shr1(v), IEEE) ELSE Shr1(v),
                   n - 1)

\* make_table: the 256 entries, each 8 shift/xor steps from its index
IEEE_TABLE == [i \in 0..255 |-> TableStep(U32(0, i), 8)]

\* one step of crc32::update: TABLE[(value as u8) ^ byte] ^ (value >> 8)
update_byte(value, byte) ==
    XorU32(IEEE_TABLE[BitXor(value.lo % 256, byte, 8)], Shr8(value))

\* crc32::update: the loop over bytes lo..hi, starting from value.  The
\* range is folded in two halves, left half first, which is the same fold
\* with a shallow evaluation.
RECURSIVE update(_, _, _, _)
update(value, bytes_, lo, hi) ==
    IF lo > hi THEN value
    ELSE IF lo = hi THEN update_byte(value, bytes_[lo])
    ELSE LET mid == (lo + hi) \div 2
             left == update(value, bytes_, lo, mid)
         IN  \* the test evaluates left before the right half uses it
             IF left.lo >= 0 THEN update(left, bytes_, mid + 1, hi)
             ELSE left

checksum_ieee(bytes_) ==
    NotU32(update(U32(65535, 65535), bytes_, 1, Len(bytes_)))

\* ------------------------------------------------------------- ChunkType
Ok(v) == [tag |-> "Ok", val |-> v]
Err(e) == [tag |-> "Err", err |-> e]

\* the two match arms 65..=90 | 97..=122
InRange(i) == i \in 65..90 \/ i \in 97..122

\* the loop `for i in value { match i { .. } }`: pushes the letters, and
\* remembers in is_error whether some element was not one
RECURSIVE PushLoop(_, _, _, _)
PushLoop(value, k, chunk_type, is_error) ==
    IF k > Len(value) THEN [chunk_type |-> chunk_type, is_error |-> is_error]
    ELSE IF InRange(value[k])
         THEN PushLoop(value, k + 1, Append(chunk_type, value[k]), is_error)
         ELSE PushLoop(value, k + 1, chunk_type, "ValueNotInRange")

\* the owned-array constructor with the upper range one too wide (65..=91)
try_from_array_wide(value) ==
    IF \E k \in 1..Len(value) :
          ~(value[k] \in 65..91 \/ value[k] \in 97..122)
    THEN Err("ValueNotInRange")
    ELSE Ok([chunk_type |-> value])

\* impl TryFrom<[u8; 4]> for ChunkType
ChunkType_try_from_array(value) ==
    LET r == PushLoop(value, 1, <<>>, "None")
    IN  IF r.is_error # "None" THEN Err(r.is_error)
        ELSE Ok([chunk_type |-> r.chunk_type])

\* impl TryFrom<&[u8; 4]> for ChunkType
ChunkType_try_from_ref(value) ==
    LET r == PushLoop(value, 1, <<>>, "None")
    IN  IF r.is_error # "None" THEN Err(r.is_error)
        ELSE Ok([chunk_type |-> r.chunk_type])

\* char::len_utf8
len_utf8(c) ==
    IF c < 128 THEN 1 ELSE IF c < 2048 THEN 2 ELSE IF c < 65536 THEN 3 ELSE 4

\* str::len: the length of the string in bytes
RECURSIVE str_len(_)
str_len(s) == IF s = <<>> THEN 0 ELSE len_utf8(Head(s)) + str_len(Tail(s))

\* `i as u8` of a char
char_as_u8(c) == c % 256

\* impl FromStr for ChunkType
from_str(s) ==
    IF str_len(s) # 4 THEN Err("StrNotCorrctLngth")
    ELSE LET r == PushLoop([k \in 1..Len(s) |-> char_as_u8(s[k])],
                           1, <<>>, "None")
         IN  IF r.is_error # "None" THEN Err(r.is_error)
             ELSE Ok([chunk_type |-> r.chunk_type])

\* ChunkType::bytes: collect the chars as u8 and unwrap the conversion to
\* [u8; 4], which panics unless there are exactly 4
bytes(self) ==
    IF Len(self.chunk_type) = 4
    THEN Ok([k \in 1..4 |-> self.chunk_type[k] % 256])
    ELSE [tag |-> "Panic"]

is_valid(self) == BitAnd(bytes(self).val[3], 32, 8) = 0

is_critical(self) == ~(BitAnd(bytes(self).val[1], 32, 8) > 0)

is_public(self) == BitAnd(bytes(self).val[2], 32, 8) = 0

is_reserved_bit_valid(self) == BitAnd(bytes(self).val[3], 32, 8) = 0

\* is_safe_to_copy with the two branches swapped
is_safe_to_copy_swapped(self) == BitAnd(bytes(self).val[4], 32, 8) = 0

is_safe_to_copy(self) == ~(BitAnd(bytes(self).val[4], 32, 8) = 0)

\* impl fmt::Display for ChunkType: the chars, in order
to_string(self) == self.chunk_type

\* ----------------------------------------------------------------- Chunk
Panic == [tag |-> "Panic"]

\* slice::split_at: panics when mid > len
split_at(slice, mid) ==
    IF mid > Len(slice) THEN Panic
    ELSE [tag |-> "Ok", left |-> SubSeq(slice, 1, mid),
          right |-> SubSeq(slice, mid + 1, Len(slice))]

\* <[u8; 4]>::try_from(&[u8])
try_into(slice) == IF Len(slice) = 4 THEN Ok(slice) ELSE Err("TryFromSlice")

\* the size check without the 4 bytes of the crc
too_small_12(value) == Len(value) < 12

\* the size check `value.len() < 16`
too_small(value) == Len(value) < 16

\* the crc read from the end of the buffer
split_crc_last(value) ==
    IF 4 > Len(value) THEN Panic
    ELSE [tag |-> "Ok", left |-> SubSeq(value, Len(value) - 3, Len(value)),
          right |-> <<>>]

\* `let (crc_true, _) = value.split_at(4)`
split_crc(value) == split_at(value, 4)

\* the comparison on the low 16 bits only
crc_differs_low(crc, true_crc) == crc.lo # true_crc.lo

\* the comparison `crc != true_crc`
crc_differs(crc, true_crc) == crc # true_crc

\* Chunk::new with the crc over the data alone
new_data_only(chunk_type, data) ==
    [length |-> as_u32(Len(data)), chunk_type |-> chunk_type,
     data |-> data, crc |-> checksum_ieee(data)]

\* Chunk::new
new(chunk_type, data) ==
    IF bytes(chunk_type).tag = "Panic" THEN Panic
    ELSE
    LET bytes_ == bytes(chunk_type).val \o data
        crc == checksum_ieee(bytes_)
    IN  [length |-> as_u32(Len(data)), chunk_type |-> chunk_type,
         data |-> data, crc |-> crc]

\* impl TryFrom<&[u8]> for Chunk
Chunk_try_from(value) ==
    IF too_small(value)
    THEN [tag |-> "Err", err |-> "InputTooSmall", n |-> Len(value)]
    ELSE
    LET s1 == split_at(value, 4)
        dl == try_into(s1.left)
        s2 == split_at(s1.right, 4)
        ty == try_into(s2.left)
    IN
    IF dl.tag # "Ok" THEN Err("NotOk")
    ELSE IF ty.tag # "Ok" THEN Err("NotOk")
    ELSE
    LET data_length == as_usize(from_be_bytes(dl.val))
        chunk_type == ChunkType_try_from_ref(ty.val)
    IN
    IF chunk_type.tag # "Ok" THEN Err("ChunkTypeNotValid")
    ELSE
    LET s3 == split_at(s2.right, data_length)
    IN
    IF s3.tag = "Panic" THEN Panic
    ELSE
    LET s4 == split_crc(s3.right)
    IN
    IF s4.tag = "Panic" THEN Panic
    ELSE
    LET data == s3.left
        bytes_ == bytes(chunk_type.val).val \o data
        crc == checksum_ieee(bytes_)
        tc == try_into(s4.left)
    IN
    IF tc.tag # "Ok" THEN Err("NotOk")
    ELSE
    LET true_crc == from_be_bytes(tc.val)
    IN
    IF crc_differs(crc, true_crc)
    THEN [tag |-> "Err", err |-> "CrcMissMatch",
          computed |-> crc, declared |-> true_crc]
    ELSE Ok([length |-> as_u32(data_length), chunk_type |-> chunk_type.val,
             data |-> data, crc |-> crc])

\* Chunk::as_bytes
as_bytes(self) == self.data

\* the record as the tests assemble it: length, type, data, crc
chunk_data(data_length, chunk_type, message_bytes, crc) ==
    to_be_bytes(data_length) \o chunk_type \o message_bytes
        \o to_be_bytes(crc)

\* ----------------------------------------------------- ChunkType actions
InitType ==
    /\ arg \in Strings
    /\ owned = None /\ borrowed = None /\ parsed = None
    /\ chunk = None /\ buf = <<>> /\ src = "none" /\ res = None

\* a string of 4 chars below 256 is also read as a [u8; 4]
IsArray(a) == Len(a) = 4 /\ \A k \in 1..4 : a[k] \in 0..255

TryFromArray ==
    /\ owned = None
    /\ IsArray(arg)
    /\ owned' = ChunkType_try_from_array(arg)
    /\ UNCHANGED <<arg, borrowed, parsed, chunkVars>>

TryFromRef ==
    /\ borrowed = None
    /\ IsArray(arg)
    /\ borrowed' = ChunkType_try_from_ref(arg)
    /\ UNCHANGED <<arg, owned, parsed, chunkVars>>

FromStr ==
    /\ parsed = None
    /\ parsed' = from_str(arg)
    /\ UNCHANGED <<arg, owned, borrowed, chunkVars>>

NextType == TryFromArray \/ TryFromRef \/ FromStr

SpecType == InitType /\ [][NextType]_vars

\* --------------------------------------------------------- Chunk actions
Init ==
    /\ arg = <<>> /\ owned = None /\ borrowed = None /\ parsed = None
    /\ chunk = None /\ buf = <<>> /\ src = "none" /\ res = None

\* the caller is handed a buffer from outside
RawBuffer ==
    /\ src = "none" /\ chunk = None
    /\ \E b \in RawBuffers : buf' = b
    /\ src' = "raw"
    /\ res' = None
    /\ UNCHANGED <<chunk, typeVars>>

\* ChunkType::from_str(..).unwrap(), then Chunk::new
NewChunk ==
    /\ src = "none" /\ chunk = None
    /\ \E t \in TagInputs, data \in Payloads :
          LET chunk_type == from_str(t)
          IN  /\ chunk_type.tag = "Ok"
              /\ chunk' = new(chunk_type.val, data)
    /\ UNCHANGED <<buf, src, res, typeVars>>

AsBytes ==
    /\ chunk # None
    /\ buf' = as_bytes(chunk)
    /\ src' = "as_bytes"
    /\ res' = None
    /\ UNCHANGED <<chunk, typeVars>>

\* the chunk's fields on the wire, followed by whatever comes next
Encode ==
    /\ chunk # None
    /\ \E t \in Trailings :
          buf' = chunk_data(chunk.length, bytes(chunk.chunk_type).val,
                            chunk.data, chunk.crc) \o t
    /\ src' = "wire"
    /\ res' = None
    /\ UNCHANGED <<chunk, typeVars>>

\* one bit of the payload or of the crc field of a record that parsed
FlipBit ==
    /\ src = "wire" /\ res.tag = "Ok"
    /\ \E i \in 9..(12 + Len(chunk.data)), k \in 0..7 :
          buf' = [buf EXCEPT ![i] = BitXor(@, 2 ^ k, 8)]
    /\ src' = "tampered"
    /\ res' = None
    /\ UNCHANGED <<chunk, typeVars>>

Parse ==
    /\ src # "none" /\ res = None
    /\ res' = Chunk_try_from(buf)
    /\ UNCHANGED <<chunk, buf, src, typeVars>>

Next == RawBuffer \/ NewChunk \/ AsBytes \/ Encode \/ FlipBit \/ Parse

Spec == Init /\ [][Next]_vars

\* ================================================================ claims
Letter(c) == (65 <= c /\ c <= 90) \/ (97 <= c /\ c <= 122)

Bit5(b) == (b \div 32) % 2 = 1

\* the big-endian length field of a buffer, as a number
DeclaredLen(b) == b[1] * 16777216 + b[2] * 65536 + b[3] * 256 + b[4]

IsErr(r, e) == r.tag = "Err" /\ r.err = e

TypeResults == {owned, borrowed, parsed}

\* length and crc of a chunk agree with its type and data
Consistent(c) ==
    /\ as_usize(c.length) = Len(c.data)
    /\ c.crc = checksum_ieee(c.chunk_type.chunk_type \o c.data)

\* C1: parsing the bytes returned by as_bytes of a chunk built by new
\* succeeds and yields a chunk equal to the original in length, type, data
\* and crc.
C1_RoundTrip ==
    (src = "as_bytes" /\ res # None) => (res.tag = "Ok" /\ res.val = chunk)

\* C2: on a buffer of at least 16 bytes with a valid type tag whose length
\* field declares more payload than remains after the type field, or leaves
\* fewer than 4 bytes for the crc, parse returns an error value and does not
\* panic.
C2_NoPanic ==
    (/\ res # None
     /\ Len(buf) >= 16
     /\ \A k \in 5..8 : Letter(buf[k])
     /\ DeclaredLen(buf) + 4 > Len(buf) - 8)
    => res.tag = "Err"

\* C3: parse returns InputTooSmall(n) with n the buffer length for every
\* buffer shorter than 16 bytes, whatever its contents, and never for a
\* buffer of 16 bytes or more.
C3_InputTooSmall ==
    res # None =>
        /\ Len(buf) < 16 =>
              res = [tag |-> "Err", err |-> "InputTooSmall", n |-> Len(buf)]
        /\ Len(buf) >= 16 => ~IsErr(res, "InputTooSmall")

C3_Witness ==
    /\ src = "raw" /\ Len(buf) = 15 /\ buf[5] = 82
    /\ IsErr(res, "InputTooSmall") /\ res.n = 15

\* C4: after one bit of the payload or of the crc field of a record that
\* parsed is flipped, parse yields CrcMissMatch(computed, declared), with
\* the crc computed over type and payload of the buffer and the crc declared
\* in it, and never a chunk.
C4_Tamper ==
    (src = "tampered" /\ res # None) =>
        LET L == Len(chunk.data)
        IN  /\ IsErr(res, "CrcMissMatch")
            /\ res.computed = checksum_ieee(SubSeq(buf, 5, 8 + L))
            /\ res.declared = from_be_bytes(SubSeq(buf, 9 + L, 12 + L))
            /\ res.computed # res.declared

C4_Witness ==
    /\ src = "tampered" /\ IsErr(res, "CrcMissMatch")
    /\ Len(chunk.data) > 0
    /\ res.computed # chunk.crc

\* C5: every chunk built by new or returned by a successful parse has
\* length = data.len() and crc = CRC-32 of type bytes ++ data; the crc of a
\* parsed chunk is the one declared in the buffer; new gives the same length
\* and crc for the same type and payload (42 and 2882656334 for "RuSt" with
\* the test message).
C5_Consistent ==
    /\ chunk # None =>
          /\ Consistent(chunk)
          /\ (chunk.chunk_type.chunk_type = <<82, 117, 83, 116>>
                /\ chunk.data = TestMessage)
             => (chunk.length = U32(0, 42) /\ chunk.crc = U32(43985, 55374))
    /\ res.tag = "Ok" =>
          LET c == res.val
              L == Len(c.data)
          IN  /\ Consistent(c)
              /\ c.crc = from_be_bytes(SubSeq(buf, 9 + L, 12 + L))
              /\ c.length = new(c.chunk_type, c.data).length
              /\ c.crc = new(c.chunk_type, c.data).crc

C5_Witness ==
    /\ chunk # None /\ res.tag = "Ok"
    /\ Len(res.val.data) > 0
    /\ res.val.crc = chunk.crc

\* C6: every ChunkType returned by a successful constructor holds exactly 4
\* elements, each an ASCII letter, so that bytes() is defined on it.
C6_FourLetters ==
    \A r \in TypeResults :
        r.tag = "Ok" =>
            /\ Len(r.val.chunk_type) = 4
            /\ \A k \in 1..Len(r.val.chunk_type) : Letter(r.val.chunk_type[k])
            /\ bytes(r.val).tag = "Ok"

\* C7: from_str fails with StrNotCorrctLngth exactly when the string does
\* not have exactly 4 characters; with exactly 4 characters it fails with
\* ValueNotInRange iff some character is not an ASCII letter, and otherwise
\* succeeds.
C7_FromStr ==
    parsed # None =>
        /\ IsErr(parsed, "StrNotCorrctLngth") <=> Len(arg) # 4
        /\ Len(arg) = 4 =>
              /\ IsErr(parsed, "ValueNotInRange")
                    <=> (\E k \in 1..4 : ~Letter(arg[k]))
              /\ (\A k \in 1..4 : Letter(arg[k])) => parsed.tag = "Ok"

\* C8: on a 4-byte ASCII input the three constructors agree: each succeeds
\* iff all 4 bytes are in 65-90 or 97-122, returning a ChunkType whose
\* bytes() is the input, and each fails with ValueNotInRange otherwise.
C8_Agree ==
    (Len(arg) = 4 /\ \A k \in 1..4 : arg[k] \in 0..127) =>
        /\ \A r \in TypeResults :
              r # None =>
                  IF \A k \in 1..4 : Letter(arg[k])
                  THEN /\ r.tag = "Ok"
                       /\ r.val.chunk_type = arg
                       /\ bytes(r.val) = Ok(arg)
                  ELSE r = Err("ValueNotInRange")
        /\ \A r1, r2 \in TypeResults : (r1 # None /\ r2 # None) => r1 = r2

C8_Witness ==
    /\ arg = <<65, 122, 90, 97>>
    /\ owned.tag = "Ok" /\ borrowed.tag = "Ok" /\ parsed.tag = "Ok"
    /\ owned = parsed /\ borrowed = parsed

\* C9: on a well-formed ChunkType, is_critical, is_public and
\* is_reserved_bit_valid hold iff bit 5 of byte 0, 1, 2 is clear,
\* is_safe_to_copy iff bit 5 of byte 3 is set, is_valid iff
\* is_reserved_bit_valid, and none depends on another byte.
C9_Bits ==
    \A r \in TypeResults :
        (r.tag = "Ok" /\ Len(r.val.chunk_type) = 4) =>
            LET t == r.val
                b == t.chunk_type
            IN  /\ is_critical(t) <=> ~Bit5(b[1])
                /\ is_public(t) <=> ~Bit5(b[2])
                /\ is_reserved_bit_valid(t) <=> ~Bit5(b[3])
                /\ is_safe_to_copy(t) <=> Bit5(b[4])
                /\ is_valid(t) <=> is_reserved_bit_valid(t)
                /\ \A k \in 1..4, c \in {65, 90, 97, 122} :
                      LET u == [chunk_type |-> [b EXCEPT ![k] = c]]
                      IN  /\ k # 1 => (is_critical(u) <=> is_critical(t))
                          /\ k # 2 => (is_public(u) <=> is_public(t))
                          /\ k # 3 => /\ is_reserved_bit_valid(u)
                                         <=> is_reserved_bit_valid(t)
                                      /\ is_valid(u) <=> is_valid(t)
                          /\ k # 4 => (is_safe_to_copy(u)
                                         <=> is_safe_to_copy(t))

C9_Witness ==
    /\ owned.tag = "Ok"
    /\ owned.val.chunk_type = <<65, 122, 90, 97>>
    /\ is_critical(owned.val) /\ ~is_public(owned.val)
    /\ is_valid(owned.val) /\ is_safe_to_copy(owned.val)

\* C10: a buffer of at least 16 bytes whose length field L has
\* 12 + L <= len, whose bytes 4..8 are letters and whose bytes 8+L..12+L are
\* the crc of bytes 4..8+L parses to a chunk of length L with data bytes
\* 8..8+L; the bytes after 12+L do not affect the result.
C10_Accept ==
    (res # None /\ Len(buf) >= 16) =>
        LET L == DeclaredLen(buf)
        IN  (/\ 12 + L <= Len(buf)
             /\ \A k \in 5..8 : Letter(buf[k])
             /\ from_be_bytes(SubSeq(buf, 9 + L, 12 + L))
                   = checksum_ieee(SubSeq(buf, 5, 8 + L)))
            => /\ res.tag = "Ok"
               /\ as_usize(res.val.length) = L
               /\ res.val.data = SubSeq(buf, 9, 8 + L)
               /\ src = "wire" => res.val = chunk
               /\ res = Chunk_try_from(
                            SubSeq(buf, 1, IF L < 4 THEN 16 ELSE 12 + L))

C10_Witness ==
    /\ src = "wire" /\ res.tag = "Ok"
    /\ Len(buf) = 16 /\ buf[16] = 65
    /\ res.val.data = <<>> /\ res.val.length = U32(0, 0)

====
